---- MODULE Spec2Model ----
(***************************************************************************)
(* Model of GitHubNodeCrawler (src/node_crawler.py): the crawl-fetch-parse *)
(* -dedup pipeline.  Strings that the code inspects character by character *)
(* (file paths, text file contents, proxy links) are sequences of one-     *)
(* character strings.  Values produced by yaml.safe_load are records       *)
(* [t, n, s, l, d]: the Python type name, the numeric payload, the string  *)
(* payload, the list items and the mapping.                                *)
(***************************************************************************)
EXTENDS Integers, Sequences, FiniteSets, TLC

(***************************************************************************)
(* Bounds of the model.                                                    *)
(***************************************************************************)
\* longest repository list handed to crawl_all
MaxRepos == 2
\* number of pieces a generated text file is assembled from
MaxPieces == 4
\* longest proxies list of a generated Clash document
MaxProxies == 2

(***************************************************************************)
(* Python values.                                                          *)
(***************************************************************************)
NoMap == [k \in {} |-> 0]

PyNone == [t |-> "NoneType", n |-> 0, s |-> "", l |-> <<>>, d |-> NoMap]

PyBool(b) == [t |-> "bool", n |-> IF b THEN 1 ELSE 0, s |-> "", l |-> <<>>, d |-> NoMap]

PyInt(i) == [t |-> "int", n |-> i, s |-> "", l |-> <<>>, d |-> NoMap]

PyStr(x) == [t |-> "str", n |-> 0, s |-> x, l |-> <<>>, d |-> NoMap]

PyList(items) == [t |-> "list", n |-> 0, s |-> "", l |-> items, d |-> NoMap]

PyDict(m) == [t |-> "dict", n |-> 0, s |-> "", l |-> <<>>, d |-> m]

\* bool(v): None, False, 0, "", [] and {} are falsy
Truthy(v) ==
    CASE v.t = "NoneType" -> FALSE
      [] v.t \in {"bool", "int"} -> v.n # 0
      [] v.t = "str" -> v.s # ""
      [] v.t = "list" -> v.l # <<>>
      [] v.t = "dict" -> DOMAIN v.d # {}
      [] OTHER -> TRUE

\* x or y
PyOr(x, y) == IF Truthy(x) THEN x ELSE y

\* hash(v) raises TypeError for lists and dicts
Hashable(v) == v.t \notin {"list", "dict"}

\* v1 == v2 for hashable values: bool is a subclass of int, True == 1
PyEq(a, b) ==
    IF a.t \in {"bool", "int"} /\ b.t \in {"bool", "int"}
    THEN a.n = b.n
    ELSE a = b

\* isinstance(v, dict)
IsDict(v) == v.t = "dict"

\* d.get(k): the value under k, None when k is missing
DictGet(v, k) == IF k \in DOMAIN v.d THEN v.d[k] ELSE PyNone

(***************************************************************************)
(* Character strings.                                                      *)
(***************************************************************************)
UpperLetters == <<"A", "B", "C", "D", "E", "F", "G", "H", "I", "J", "K", "L", "M",
                  "N", "O", "P", "Q", "R", "S", "T", "U", "V", "W", "X", "Y", "Z">>

LowerLetters == <<"a", "b", "c", "d", "e", "f", "g", "h", "i", "j", "k", "l", "m",
                  "n", "o", "p", "q", "r", "s", "t", "u", "v", "w", "x", "y", "z">>

\* str.lower() on one character
LowerChar(c) ==
    IF \E i \in DOMAIN UpperLetters : UpperLetters[i] = c
    THEN LowerLetters[CHOOSE i \in DOMAIN UpperLetters : UpperLetters[i] = c]
    ELSE c

\* str.lower()
Lower(str) == [i \in DOMAIN str |-> LowerChar(str[i])]

\* str.startswith(prefix)
StartsWith(str, prefix) ==
    /\ Len(prefix) <= Len(str)
    /\ SubSeq(str, 1, Len(prefix)) = prefix

\* str.endswith(suffix)
EndsWith(str, suffix) ==
    /\ Len(suffix) <= Len(str)
    /\ SubSeq(str, Len(str) - Len(suffix) + 1, Len(str)) = suffix

\* the line boundaries of str.splitlines() that the model's alphabet has
LineBreaks == {"\n", "\r", "\f"}

\* the characters str.strip() removes that the model's alphabet has
Whitespace == {" ", "\t", "\n", "\r", "\f"}

RECURSIVE SplitFrom(_, _, _, _)
\* str.splitlines(): scan from position i, cur is the line being read
SplitFrom(str, i, cur, out) ==
    IF i > Len(str)
    THEN IF cur # <<>> THEN Append(out, cur) ELSE out
    ELSE IF str[i] = "\r" /\ i < Len(str) /\ str[i + 1] = "\n"
    THEN SplitFrom(str, i + 2, <<>>, Append(out, cur))
    ELSE IF str[i] \in LineBreaks
    THEN SplitFrom(str, i + 1, <<>>, Append(out, cur))
    ELSE SplitFrom(str, i + 1, Append(cur, str[i]), out)

SplitLines(str) == SplitFrom(str, 1, <<>>, <<>>)

RECURSIVE LStrip(_)
LStrip(str) ==
    IF str # <<>> /\ Head(str) \in Whitespace THEN LStrip(Tail(str)) ELSE str

RECURSIVE RStrip(_)
RStrip(str) ==
    IF str # <<>> /\ str[Len(str)] \in Whitespace
    THEN RStrip(SubSeq(str, 1, Len(str) - 1))
    ELSE str

\* str.strip()
Strip(str) == RStrip(LStrip(str))

(***************************************************************************)
(* The literals of the code.                                               *)
(***************************************************************************)
ExtYaml == <<".", "y", "a", "m", "l">>
ExtYml == <<".", "y", "m", "l">>
ExtTxt == <<".", "t", "x", "t">>
ExtJson == <<".", "j", "s", "o", "n">>

\* the extensions search_github_files keeps
CandidateExts == {ExtYaml, ExtYml, ExtTxt, ExtJson}

PrefixSs == <<"s", "s", ":", "/", "/">>
PrefixVmess == <<"v", "m", "e", "s", "s", ":", "/", "/">>
PrefixTrojan == <<"t", "r", "o", "j", "a", "n", ":", "/", "/">>
PrefixVless == <<"v", "l", "e", "s", "s", ":", "/", "/">>

\* the prefixes parse_links_from_text recognises
LinkPrefixes == {PrefixSs, PrefixVmess, PrefixTrojan, PrefixVless}

(***************************************************************************)
(* The parsers.                                                            *)
(***************************************************************************)
\* the node parse_links_from_text builds for one stripped line
LinkNode(line) ==
    [type |-> PyStr("url"), name |-> PyStr("raw-link"), server |-> PyNone,
     port |-> PyNone, config |-> [link |-> line, proxy |-> PyNone]]

\* the test of the stripped line in parse_links_from_text
IsLinkLineBug(line) ==
    /\ line # <<>>
    /\ \E prefix \in LinkPrefixes \ {PrefixVless} : StartsWith(line, prefix)

IsLinkLine(line) ==
    /\ line # <<>>
    /\ \E prefix \in LinkPrefixes : StartsWith(line, prefix)

RECURSIVE LinksOfLines(_)
LinksOfLines(lines) ==
    IF lines = <<>> THEN <<>>
    ELSE LET line == Strip(Head(lines))
         IN  (IF IsLinkLine(line) THEN <<LinkNode(line)>> ELSE <<>>)
                 \o LinksOfLines(Tail(lines))

parse_links_from_text(content) == LinksOfLines(SplitLines(content))

\* what iterating over v yields; None when iter(v) raises TypeError.
\* Iterating a str yields its characters and iterating a dict its keys: these
\* are str values, of which only the number matters below.
Items(v) ==
    CASE v.t = "list" -> v.l
      [] v.t = "str" -> [i \in 1..Len(v.s) |-> PyStr("c")]
      [] v.t = "dict" -> [i \in 1..Cardinality(DOMAIN v.d) |-> PyStr("k")]

Iterable(v) == v.t \in {"list", "str", "dict"}

\* the node parse_clash_yaml builds for the proxy entry p
ClashNode(p) ==
    [type |-> PyOr(DictGet(p, "type"), PyStr("unknown")),
     name |-> PyOr(DictGet(p, "name"), PyStr("unknown")),
     server |-> DictGet(p, "server"),
     port |-> DictGet(p, "port"),
     config |-> [link |-> <<>>, proxy |-> p]]

\* the test that lets a node into the result of parse_clash_yaml
KeepNodeBug(node) == Truthy(node.server)

KeepNode(node) == Truthy(node.server) /\ Truthy(node.port)

RECURSIVE NodesOfProxies(_)
\* the loop of parse_clash_yaml over proxies
NodesOfProxies(proxies) ==
    IF proxies = <<>> THEN <<>>
    ELSE LET p == Head(proxies)
         IN  (IF IsDict(p) /\ KeepNode(ClashNode(p)) THEN <<ClashNode(p)>> ELSE <<>>)
                 \o NodesOfProxies(Tail(proxies))

\* content.load = "error": yaml.safe_load(content) raises; otherwise
\* content.doc is the document it returns
parse_clash_yaml(content) ==
    IF content.load = "error" THEN <<>>
    ELSE IF ~IsDict(content.doc) THEN <<>>
    ELSE LET proxies == PyOr(DictGet(content.doc, "proxies"), PyList(<<>>))
         IN  IF ~Iterable(proxies) THEN <<>>
             ELSE NodesOfProxies(Items(proxies))

\* the branch of parse_nodes_from_file that path takes
ParserFor(path) ==
    LET path_lower == Lower(path)
    IN  IF EndsWith(path_lower, ExtYaml) \/ EndsWith(path_lower, ExtYml) THEN "clash"
        ELSE IF EndsWith(path_lower, ExtTxt) THEN "links"
        ELSE IF EndsWith(path_lower, ExtJson) THEN "json"
        ELSE "none"

parse_nodes_from_file(path, content) ==
    CASE ParserFor(path) = "clash" -> parse_clash_yaml(content)
      [] ParserFor(path) = "links" -> parse_links_from_text(content.text)
      [] OTHER -> <<>>

(***************************************************************************)
(* config.py                                                               *)
(***************************************************************************)
\* the default of GITHUB_REPOS
GITHUB_REPOS == <<"freefq/free", "peasoft/NoMoreWalls",
                  "ripaojiedian/free-ssr-ss-v2ray-vless-clash">>

\* the values of DEFAULT_BRANCH: its default "main", or one set in the environment
DefaultBranches == {"main", "master", "dev"}

(***************************************************************************)
(* HTTP responses.  status 0 stands for session.get raising (timeout,      *)
(* connection error).                                                      *)
(***************************************************************************)
Statuses == {0, 200, 403, 404, 500}

Chars(name, ext) == name \o ext

BlobItem(path) == [type |-> "blob", path |-> path]

DirItem(path) == [type |-> "tree", path |-> path]

PathA == Chars(<<"a">>, ExtYaml)
PathB == Chars(<<"b">>, ExtTxt)
PathC == Chars(<<"s", "u", "b", "/", "c">>, ExtTxt)
PathD == Chars(<<"d">>, ExtYml)
PathJ == Chars(<<"j">>, ExtJson)
PathUpper == <<"F", ".", "Y", "A", "M", "L">>
PathMd == <<"r", ".", "m", "d">>
PathBare == <<"t", "x", "t">>

\* the entries a tree listing is made of
TreeItems == {BlobItem(PathA), BlobItem(PathB), BlobItem(PathD), BlobItem(PathJ),
              BlobItem(PathUpper), BlobItem(PathMd), BlobItem(PathBare),
              DirItem(PathC), DirItem(<<"s", "u", "b">>)}

\* the tree listings the crawled repositories answer with
Trees == {<<BlobItem(PathMd), DirItem(PathC)>>,
          <<BlobItem(PathC), BlobItem(PathJ)>>,
          <<BlobItem(PathA), DirItem(<<"s", "u", "b">>), BlobItem(PathUpper), BlobItem(PathB)>>}

\* json |-> "bad": resp.json() raises, or the document is not the mapping with
\* a list of mappings under "tree" that the loop expects, so the loop raises
TreeBodies == [json : {"ok"}, tree : Trees] \cup [json : {"bad"}, tree : {<<>>}]

TreeResponses == [status : {200}, body : TreeBodies]
                     \cup [status : Statuses \ {200}, body : {[json |-> "bad", tree |-> <<>>]}]

LinkA == PrefixSs \o <<"a">>
LinkB == PrefixVmess \o <<"b">>

Proxy1 == PyDict([type |-> PyStr("ss"), name |-> PyStr("n1"), server |-> PyStr("h"),
                  port |-> PyInt(1)])
\* the identity key of Proxy1 (True == 1), another cipher
Proxy1b == PyDict([type |-> PyStr("ss"), name |-> PyStr("n1"), server |-> PyStr("h"),
                   port |-> PyBool(TRUE), cipher |-> PyStr("x")])
Proxy2 == PyDict([server |-> PyStr("h"), port |-> PyInt(2)])
ProxyNoPort == PyDict([type |-> PyStr("ss"), name |-> PyStr("n3"), server |-> PyStr("h")])
ProxyListName == PyDict([type |-> PyStr("ss"), name |-> PyList(<<PyStr("n")>>),
                         server |-> PyStr("h"), port |-> PyInt(1)])

YamlText == <<"p", ":">>

ClashDoc(proxies) == [text |-> YamlText, load |-> "ok",
                      doc |-> PyDict([proxies |-> proxies])]

TextFile(text) == [text |-> text, load |-> "ok", doc |-> PyStr("text")]

EmptyContent == [text |-> <<>>, load |-> "ok", doc |-> PyNone]

\* the file contents the crawled repositories answer with
Contents == {EmptyContent,
             TextFile(<<"x", "\n">> \o LinkA \o <<"\r", "\n", " ">> \o LinkB \o <<" ">>),
             ClashDoc(PyList(<<Proxy1, PyStr("junk"), Proxy1b, ProxyNoPort, Proxy2>>)),
             ClashDoc(PyList(<<ProxyListName>>)),
             ClashDoc(PyInt(5)),
             [text |-> <<"{", "[">>, load |-> "error", doc |-> PyNone]}

\* fmt: "base64" is the Content API answer {"encoding": "base64", "content": ...},
\* whose content field is represented by the text it decodes to; "base64-bad"
\* one whose content does not decode; "plain" a mapping with a str content;
\* "other" any other JSON document; "bad-json" a body resp.json() raises on
ContentBodies == [fmt : {"base64", "plain"}, content : Contents]
                     \cup [fmt : {"base64-bad", "other", "bad-json"}, content : {EmptyContent}]

ContentResponses == [status : {200}, body : ContentBodies]
                        \cup [status : Statuses \ {200},
                              body : {[fmt |-> "other", content |-> EmptyContent]}]

(***************************************************************************)
(* The GitHub operations.                                                  *)
(***************************************************************************)
\* the string get_github_file_content returns for the response resp
get_github_file_content(resp) ==
    IF resp.status = 200 /\ resp.body.fmt \in {"base64", "plain"}
    THEN resp.body.content
    ELSE EmptyContent

\* the test of one tree entry in search_github_files
IsCandidateBug(item) == \E ext \in CandidateExts : EndsWith(item.path, ext)

IsCandidate(item) ==
    /\ item.type = "blob"
    /\ \E ext \in CandidateExts : EndsWith(item.path, ext)

RECURSIVE CandidateFiles(_)
\* the loop of search_github_files over data["tree"]
CandidateFiles(tree) ==
    IF tree = <<>> THEN <<>>
    ELSE (IF IsCandidate(Head(tree)) THEN <<Head(tree).path>> ELSE <<>>)
             \o CandidateFiles(Tail(tree))

\* a tree request that makes search_github_files return
TreeSucceeds(resp) == resp.status = 200 /\ resp.body.json = "ok"

\* branches_to_try
BranchesToTryBug(default_branch) == <<default_branch, "main", "master">>

BranchesToTry(default_branch) == <<default_branch, "master", "main">>

(***************************************************************************)
(* Deduplication in crawl_all.                                             *)
(***************************************************************************)
KeyOf(n) == <<n.type, n.server, n.port, n.name>>

\* hash(key) raises TypeError when one component is unhashable
KeyHashable(key) == \A i \in DOMAIN key : Hashable(key[i])

\* key1 == key2
KeyEq(key1, key2) == \A i \in DOMAIN key1 : PyEq(key1[i], key2[i])

\* key in seen
InSeen(key, seen_keys) == \E k \in seen_keys : KeyEq(k, key)

\* seen.add(key)
AddSeenBug(seen_keys, key) == seen_keys

AddSeen(seen_keys, key) == seen_keys \cup {key}

RECURSIVE DedupLoopBug(_, _)
\* the inner loop of crawl_all over repo_nodes; acc.raised: the loop raised
DedupLoopBug(nodes, acc) ==
    IF nodes = <<>> THEN acc
    ELSE LET key == KeyOf(Head(nodes))
         IN  IF ~KeyHashable(key) THEN [acc EXCEPT !.raised = TRUE]
             ELSE IF InSeen(key, acc.seen)
             THEN DedupLoopBug(Tail(nodes),
                               [acc EXCEPT !.all_nodes =
                                   [i \in DOMAIN acc.all_nodes |->
                                       IF KeyEq(KeyOf(acc.all_nodes[i]), key)
                                       THEN Head(nodes) ELSE acc.all_nodes[i]]])
             ELSE DedupLoopBug(Tail(nodes),
                               [all_nodes |-> Append(acc.all_nodes, Head(nodes)),
                                seen |-> AddSeen(acc.seen, key),
                                raised |-> FALSE])

RECURSIVE DedupLoop(_, _)
\* the inner loop of crawl_all over repo_nodes; acc.raised: the loop raised
DedupLoop(nodes, acc) ==
    IF nodes = <<>> THEN acc
    ELSE LET key == KeyOf(Head(nodes))
         IN  IF ~KeyHashable(key) THEN [acc EXCEPT !.raised = TRUE]
             ELSE IF InSeen(key, acc.seen) THEN DedupLoop(Tail(nodes), acc)
             ELSE DedupLoop(Tail(nodes),
                            [all_nodes |-> Append(acc.all_nodes, Head(nodes)),
                             seen |-> AddSeen(acc.seen, key),
                             raised |-> FALSE])

(***************************************************************************)
(* The state of one run of crawl_all.                                      *)
(***************************************************************************)
VARIABLES
    DEFAULT_BRANCH, \* config.DEFAULT_BRANCH
    pc,             \* where the run is: idle, crawl_all, search, fetch, returned, raised
    arg,            \* the argument of crawl_all: given = FALSE is repos=None
    repos,          \* crawl_all: repos after the default is applied
    ri,             \* crawl_all: position of the loop over repos
    all_nodes,      \* crawl_all: all_nodes
    seen,           \* crawl_all: seen
    bi,             \* search_github_files: position of the loop over branches_to_try
    tried,          \* search_github_files: tried
    branch,         \* search_github_files: the branch whose tree was listed
    files,          \* crawl_repo: files
    fi,             \* crawl_repo: position of the loop over files
    repo_nodes,     \* crawl_repo: all_nodes
    last,           \* the response to the last request
    reqs,           \* history: the requests made for the repository being crawled
    requested,      \* history: a request was made
    crawled,        \* history: the repositories crawl_repo was called with
    concat,         \* history: the results of crawl_repo, concatenated
    unresolved,     \* history: the positions in repos whose file tree no branch gave
    fn_pc, fn_arg, fn_ret   \* a parser applied on its own: argument and result

vars == <<DEFAULT_BRANCH, pc, arg, repos, ri, all_nodes, seen, bi, tried, branch, files,
          fi, repo_nodes, last, reqs, requested, crawled, concat, unresolved,
          fn_pc, fn_arg, fn_ret>>

crawlVars == <<pc, arg, repos, ri, all_nodes, seen, bi, tried, branch, files,
               fi, repo_nodes, last, reqs, requested, crawled, concat, unresolved>>

fnVars == <<fn_pc, fn_arg, fn_ret>>

NoResponse == [kind |-> "none", status |-> 0, ok |-> FALSE]

RECURSIVE SeqsUpTo(_, _)
\* the sequences over S of length at most n
SeqsUpTo(S, n) ==
    IF n = 0 THEN {<<>>}
    ELSE LET shorter == SeqsUpTo(S, n - 1)
         IN  shorter \cup {Append(q, x) : q \in shorter, x \in S}

\* the repositories a caller passes
RepoNames == {"freefq/free", "other/repo"}

\* the arguments of crawl_all: None, or a list
RepoArgs == [given : {FALSE}, list : {<<>>}]
                \cup [given : {TRUE}, list : SeqsUpTo(RepoNames, MaxRepos)]

\* repos after lines 221-222 of crawl_all
EffectiveReposBug(a) == IF a.given /\ a.list # <<>> THEN a.list ELSE GITHUB_REPOS

EffectiveRepos(a) == IF a.given THEN a.list ELSE GITHUB_REPOS

CrawlIdle ==
    /\ pc = "idle"
    /\ arg = [given |-> FALSE, list |-> <<>>]
    /\ repos = <<>>
    /\ ri = 0
    /\ all_nodes = <<>>
    /\ seen = {}
    /\ bi = 0
    /\ tried = {}
    /\ branch = ""
    /\ files = <<>>
    /\ fi = 0
    /\ repo_nodes = <<>>
    /\ last = NoResponse
    /\ reqs = <<>>
    /\ requested = FALSE
    /\ crawled = <<>>
    /\ concat = <<>>
    /\ unresolved = {}

FnIdle ==
    /\ fn_pc = "none"
    /\ fn_arg = <<>>
    /\ fn_ret = <<>>

Init ==
    /\ DEFAULT_BRANCH \in DefaultBranches
    /\ CrawlIdle
    /\ FnIdle

\* crawl_all(repos) is called: lines 221-225
CrawlAll ==
    /\ pc = "idle"
    /\ \E a \in RepoArgs :
        /\ arg' = a
        /\ repos' = EffectiveRepos(a)
    /\ all_nodes' = <<>>
    /\ seen' = {}
    /\ ri' = 1
    /\ pc' = "crawl_all"
    /\ UNCHANGED <<DEFAULT_BRANCH, bi, tried, branch, files, fi, repo_nodes, last, reqs,
                   requested, crawled, concat, unresolved,
                   fn_pc, fn_arg, fn_ret>>

\* the loop of crawl_all calls crawl_repo(repo), which calls search_github_files
CrawlRepo ==
    /\ pc = "crawl_all"
    /\ ri <= Len(repos)
    /\ crawled' = Append(crawled, repos[ri])
    /\ bi' = 1
    /\ pc' = "search"
    /\ UNCHANGED <<DEFAULT_BRANCH, arg, repos, ri, all_nodes, seen, tried, branch, files, fi,
                   repo_nodes, last, reqs, requested, concat, unresolved,
                   fn_pc, fn_arg, fn_ret>>

\* search_github_files: a branch already in tried is passed over
SkipBranchBug ==
    /\ pc = "search"
    /\ bi <= Len(BranchesToTry(DEFAULT_BRANCH))
    /\ BranchesToTry(DEFAULT_BRANCH)[bi] \in tried
    /\ reqs' = Append(reqs, [kind |-> "tree", branch |-> BranchesToTry(DEFAULT_BRANCH)[bi],
                             path |-> <<>>, ok |-> FALSE, nodes |-> <<>>])
    /\ last' = [kind |-> "tree", status |-> 404, ok |-> FALSE]
    /\ requested' = TRUE
    /\ bi' = bi + 1
    /\ UNCHANGED <<DEFAULT_BRANCH, pc, arg, repos, ri, all_nodes, seen, tried, branch,
                   files, fi, repo_nodes, crawled, concat, unresolved,
                   fn_pc, fn_arg, fn_ret>>

SkipBranch ==
    /\ pc = "search"
    /\ bi <= Len(BranchesToTry(DEFAULT_BRANCH))
    /\ BranchesToTry(DEFAULT_BRANCH)[bi] \in tried
    /\ bi' = bi + 1
    /\ UNCHANGED <<DEFAULT_BRANCH, pc, arg, repos, ri, all_nodes, seen, tried, branch,
                   files, fi, repo_nodes, last, reqs, requested, crawled, concat,
                   unresolved,
                   fn_pc, fn_arg, fn_ret>>

\* search_github_files: the tree of one branch is requested
RequestTree ==
    /\ pc = "search"
    /\ bi <= Len(BranchesToTry(DEFAULT_BRANCH))
    /\ LET b == BranchesToTry(DEFAULT_BRANCH)[bi]
       IN  /\ b \notin tried
           /\ tried' = tried \cup {b}
           /\ \E resp \in TreeResponses :
               /\ last' = [kind |-> "tree", status |-> resp.status,
                           ok |-> TreeSucceeds(resp)]
               /\ reqs' = Append(reqs, [kind |-> "tree", branch |-> b, path |-> <<>>,
                                        ok |-> TreeSucceeds(resp), nodes |-> <<>>])
               /\ IF TreeSucceeds(resp)
                  THEN /\ files' = CandidateFiles(resp.body.tree)
                       /\ branch' = b
                       /\ fi' = 1
                       /\ pc' = "fetch"
                       /\ bi' = bi
                  ELSE /\ bi' = bi + 1
                       /\ UNCHANGED <<files, branch, fi, pc>>
    /\ requested' = TRUE
    /\ UNCHANGED <<DEFAULT_BRANCH, arg, repos, ri, all_nodes, seen, repo_nodes, crawled,
                   concat, unresolved,
                   fn_pc, fn_arg, fn_ret>>

\* search_github_files: every branch failed, [] is returned
SearchFailedBug ==
    /\ pc = "search"
    /\ bi > Len(BranchesToTry(DEFAULT_BRANCH))
    /\ pc' = "raised"
    /\ UNCHANGED <<DEFAULT_BRANCH, arg, repos, ri, all_nodes, seen, bi, tried, branch,
                   files, fi, repo_nodes, last, reqs, requested, crawled, concat,
                   unresolved, fn_pc, fn_arg, fn_ret>>

SearchFailed ==
    /\ pc = "search"
    /\ bi > Len(BranchesToTry(DEFAULT_BRANCH))
    /\ files' = <<>>
    /\ unresolved' = unresolved \cup {ri}
    /\ fi' = 1
    /\ pc' = "fetch"
    /\ UNCHANGED <<DEFAULT_BRANCH, arg, repos, ri, all_nodes, seen, bi, tried, branch,
                   repo_nodes, last, reqs, requested, crawled, concat, fn_pc, fn_arg, fn_ret>>

\* what one turn of the loop of crawl_repo adds to all_nodes
NodesOfFile(path, content) ==
    IF content.text = <<>> THEN <<>> ELSE parse_nodes_from_file(path, content)

\* all_nodes.extend(nodes) in crawl_repo
ExtendBug(nodes, more) == more

Extend(nodes, more) == nodes \o more

\* crawl_repo: one turn of the loop over files
FetchFile ==
    /\ pc = "fetch"
    /\ fi <= Len(files)
    /\ \E resp \in ContentResponses :
        LET content == get_github_file_content(resp)
            nodes == NodesOfFile(files[fi], content)
        IN  /\ last' = [kind |-> "content", status |-> resp.status,
                        ok |-> content.text # <<>>]
            /\ reqs' = Append(reqs, [kind |-> "content", branch |-> "", path |-> files[fi],
                                     ok |-> content.text # <<>>,
                                     nodes |-> nodes])
            /\ repo_nodes' = Extend(repo_nodes, nodes)
    /\ fi' = fi + 1
    /\ requested' = TRUE
    /\ UNCHANGED <<DEFAULT_BRANCH, pc, arg, repos, ri, all_nodes, seen, bi, tried, branch,
                   files, crawled, concat, unresolved,
                   fn_pc, fn_arg, fn_ret>>

\* crawl_repo returns, its locals and those of search_github_files are gone, and
\* crawl_all runs its inner loop over repo_nodes
Dedup ==
    /\ pc = "fetch"
    /\ fi > Len(files)
    /\ concat' = concat \o repo_nodes
    /\ LET acc == DedupLoop(repo_nodes, [all_nodes |-> all_nodes, seen |-> seen,
                                         raised |-> FALSE])
       IN  /\ all_nodes' = acc.all_nodes
           /\ seen' = acc.seen
           /\ IF acc.raised
              THEN pc' = "raised" /\ ri' = ri
              ELSE pc' = "crawl_all" /\ ri' = ri + 1
    /\ bi' = 0
    /\ tried' = {}
    /\ branch' = ""
    /\ files' = <<>>
    /\ fi' = 0
    /\ repo_nodes' = <<>>
    /\ last' = NoResponse
    /\ reqs' = <<>>
    /\ UNCHANGED <<DEFAULT_BRANCH, arg, repos, requested, crawled, unresolved,
                   fn_pc, fn_arg, fn_ret>>

\* crawl_all returns all_nodes
Return ==
    /\ pc = "crawl_all"
    /\ ri > Len(repos)
    /\ pc' = "returned"
    /\ UNCHANGED <<DEFAULT_BRANCH, arg, repos, ri, all_nodes, seen, bi, tried, branch,
                   files, fi, repo_nodes, last, reqs, requested, crawled, concat,
                   unresolved,
                   fn_pc, fn_arg, fn_ret>>

Next ==
    \/ CrawlAll
    \/ CrawlRepo
    \/ SkipBranch
    \/ RequestTree
    \/ SearchFailed
    \/ FetchFile
    \/ Dedup
    \/ Return

Spec == Init /\ [][Next]_vars

(***************************************************************************)
(* The parsers and the candidate filter applied on their own.              *)
(***************************************************************************)
\* longest tree listing handed to the candidate filter
MaxTree == 2

RECURSIVE Flatten(_)
Flatten(pieces) == IF pieces = <<>> THEN <<>> ELSE Head(pieces) \o Flatten(Tail(pieces))

\* what the generated text files are assembled from
Pieces == {LinkA, LinkB, PrefixTrojan \o <<"c">>, PrefixVless,
           <<"S", "S", ":", "/", "/">>, <<" ">>, <<"\t">>, <<"\n">>, <<"\r">>, <<"\f">>}

\* the texts of at most n pieces
Texts(n) == {Flatten(q) : q \in SeqsUpTo(Pieces, n)}

InitLinks ==
    /\ DEFAULT_BRANCH = "main"
    /\ CrawlIdle
    /\ fn_pc = "parse_links_from_text"
    /\ fn_arg \in Texts(MaxPieces)
    /\ fn_ret = <<>>

ParseLinks ==
    /\ fn_pc = "parse_links_from_text"
    /\ fn_ret' = parse_links_from_text(fn_arg)
    /\ fn_pc' = "done"
    /\ UNCHANGED <<DEFAULT_BRANCH, crawlVars, fn_arg>>

SpecLinks == InitLinks /\ [][ParseLinks]_vars

\* the values a proxy entry has under type, name, server and port; Missing: no such key
Missing == [t |-> "missing", n |-> 0, s |-> "", l |-> <<>>, d |-> NoMap]

TypeValues == {Missing, PyStr(""), PyStr("ss")}
NameValues == {PyStr(""), PyStr("n"), PyList(<<PyStr("n")>>)}
ServerValues == {Missing, PyStr("h")}
PortValues == {Missing, PyInt(0), PyInt(1)}

\* the mapping {"type": ty, "name": nm, "server": sv, "port": pt, "udp": True}
\* without the keys whose value is Missing
ProxyEntry(ty, nm, sv, pt) ==
    LET all == [type |-> ty, name |-> nm, server |-> sv, port |-> pt, udp |-> PyBool(TRUE)]
        keys == {k \in DOMAIN all : all[k] # Missing}
    IN  PyDict([k \in keys |-> all[k]])

ProxyEntries == {ProxyEntry(ty, nm, sv, pt) : ty \in TypeValues, nm \in NameValues,
                                              sv \in ServerValues, pt \in PortValues}
                    \cup {PyStr("junk"), PyNone}

\* the documents yaml.safe_load returns, with at most n entries under proxies
Documents(n) == {PyDict([proxies |-> PyList(q), mode |-> PyStr("rule")]) :
                  q \in SeqsUpTo(ProxyEntries, n)}
                 \cup {PyDict([proxies |-> v]) :
                           v \in {PyNone, PyInt(5), PyInt(0), PyStr("abc"), PyStr(""),
                                  PyDict([a |-> Proxy1])}}
                 \cup {PyDict([mode |-> PyStr("rule")]), PyDict(NoMap), PyNone, PyStr("abc"),
                       PyInt(7), PyList(<<Proxy1>>)}

YamlInputs(n) == [text : {YamlText}, load : {"ok"}, doc : Documents(n)]
                  \cup {[text |-> <<"{", "[">>, load |-> "error", doc |-> PyNone]}

InitClash ==
    /\ DEFAULT_BRANCH = "main"
    /\ CrawlIdle
    /\ fn_pc = "parse_clash_yaml"
    /\ fn_arg \in YamlInputs(MaxProxies)
    /\ fn_ret = <<>>

ParseClash ==
    /\ fn_pc = "parse_clash_yaml"
    /\ fn_ret' = parse_clash_yaml(fn_arg)
    /\ fn_pc' = "done"
    /\ UNCHANGED <<DEFAULT_BRANCH, crawlVars, fn_arg>>

SpecClash == InitClash /\ [][ParseClash]_vars

InitTree ==
    /\ DEFAULT_BRANCH = "main"
    /\ CrawlIdle
    /\ fn_pc = "search_github_files"
    /\ fn_arg \in SeqsUpTo(TreeItems, MaxTree)
    /\ fn_ret = <<>>

\* the body of search_github_files for a branch whose tree request answered fn_arg
FilterTree ==
    /\ fn_pc = "search_github_files"
    /\ fn_ret' = CandidateFiles(fn_arg)
    /\ fn_pc' = "done"
    /\ UNCHANGED <<DEFAULT_BRANCH, crawlVars, fn_arg>>

SpecTree == InitTree /\ [][FilterTree]_vars

(***************************************************************************)
(* Properties.                                                             *)
(***************************************************************************)
IsTreeReq(r) == r.kind = "tree"

IsContentReq(r) == r.kind = "content"

\* the tree requests and the content requests made for the repository being crawled
TreeReqs == SelectSeq(reqs, IsTreeReq)

ContentReqs == SelectSeq(reqs, IsContentReq)

\* two nodes with the same identity key (type, server, port, name)
SameIdentity(n1, n2) ==
    /\ PyEq(n1.type, n2.type)
    /\ PyEq(n1.server, n2.server)
    /\ PyEq(n1.port, n2.port)
    /\ PyEq(n1.name, n2.name)

\* C1: the list crawl_all returns holds no two nodes with the same identity
\* key (type, server, port, name).
C1_NoDuplicateIdentity ==
    pc = "returned" =>
        \A i, j \in DOMAIN all_nodes :
            i < j => ~SameIdentity(all_nodes[i], all_nodes[j])

\* crawl_all returned from two repositories whose files held different nodes
\* with one identity key
C1_Witness ==
    /\ pc = "returned"
    /\ Len(crawled) >= 2
    /\ Len(all_nodes) >= 2
    /\ \E i, j \in DOMAIN concat :
        i < j /\ SameIdentity(concat[i], concat[j]) /\ concat[i] # concat[j]

RECURSIVE NodesOfReqs(_)
\* the nodes of the successfully fetched files, in request order
NodesOfReqs(rs) ==
    IF rs = <<>> THEN <<>>
    ELSE (IF Head(rs).ok THEN Head(rs).nodes ELSE <<>>) \o NodesOfReqs(Tail(rs))

C2_AllRequestedAllKept ==
    pc = "fetch" =>
        /\ Len(ContentReqs) = fi - 1
        /\ fi <= Len(files) + 1
        /\ \A k \in DOMAIN ContentReqs : ContentReqs[k].path = files[k]
        /\ repo_nodes = NodesOfReqs(ContentReqs)

C2_FailedFileAddsNothing ==
    (pc = "fetch" /\ fi' = fi + 1 /\ last'.status # 200)
        => (repo_nodes' = repo_nodes /\ pc' = "fetch" /\ files' = files)

\* C2: in crawl_repo a content request that answers 404, 403, another non-200
\* status or raises adds no node and the loop goes on: every candidate file is
\* requested, in order, and the nodes of every fetched file are in the result.
C2_CrawlRepoTolerant ==
    /\ [](C2_AllRequestedAllKept)
    /\ [][C2_FailedFileAddsNothing]_vars

\* crawl_repo is about to return: its first file failed, a later one gave nodes
C2_Witness ==
    /\ pc = "fetch"
    /\ fi > Len(files)
    /\ Len(ContentReqs) >= 2
    /\ ~ContentReqs[1].ok
    /\ last.kind = "content" /\ last.status = 200
    /\ repo_nodes # <<>>

\* DEFAULT_BRANCH, "master", "main" without the names already tried
ExpectedBranches ==
    IF DEFAULT_BRANCH = "master" THEN <<"master", "main">>
    ELSE IF DEFAULT_BRANCH = "main" THEN <<"main", "master">>
    ELSE <<DEFAULT_BRANCH, "master", "main">>

\* the order of the tree requests, and when search_github_files returns
C3_Order ==
    pc \in {"search", "fetch"} =>
        /\ Len(TreeReqs) <= Len(ExpectedBranches)
        /\ \A k \in DOMAIN TreeReqs :
            /\ TreeReqs[k].branch = ExpectedBranches[k]
            /\ TreeReqs[k].ok => k = Len(TreeReqs)
        /\ pc = "search" => \A k \in DOMAIN TreeReqs : ~TreeReqs[k].ok
        /\ pc = "fetch" =>
            IF TreeReqs # <<>> /\ TreeReqs[Len(TreeReqs)].ok
            THEN branch = TreeReqs[Len(TreeReqs)].branch
            ELSE Len(TreeReqs) = Len(ExpectedBranches) /\ files = <<>>

\* a tree request that fails moves on to the next branch, one that succeeds returns
C3_Step ==
    (pc = "search" /\ Len(reqs') = Len(reqs) + 1)
        => /\ last'.kind = "tree"
           /\ last'.ok => pc' = "fetch"
           /\ ~last'.ok => (pc' = "search" /\ bi' = bi + 1 /\ files' = files)
           /\ last'.status # 200 => ~last'.ok

\* C3 as stated: branches are requested in the order DEFAULT_BRANCH, master,
\* main without repeats, and the first branch answering 200 ends the search.
C3_First200Decides ==
    /\ C3_Order
    /\ (last.kind = "tree" /\ last.status = 200) => pc = "fetch"

\* C3 as amended: branches are requested in the order DEFAULT_BRANCH, master,
\* main without repeats; a non-200 status, an exception, or a 200 answer whose
\* body cannot be read moves on to the next branch; the first branch answering
\* 200 with a readable tree ends the search; [] for failure is returned only
\* after every distinct branch failed.
C3_FirstReadableTreeDecides ==
    /\ [](C3_Order)
    /\ [][C3_Step]_vars

\* two branches failed and the third one answered with a tree
C3_Witness ==
    /\ pc = "fetch"
    /\ Len(TreeReqs) = Len(BranchesToTry(DEFAULT_BRANCH))
    /\ TreeReqs[Len(TreeReqs)].ok
    /\ branch = "main"

\* the number of members of S up to i: the place of i when S is listed in order
Rank(S, i) == Cardinality({j \in S : j <= i})

\* path ends with the characters of ext
SuffixIs(path, ext) ==
    /\ Len(ext) <= Len(path)
    /\ \A i \in DOMAIN ext : path[Len(path) - Len(ext) + i] = ext[i]

\* the positions of the entries of type blob whose path ends with .yaml, .yml,
\* .txt or .json
WantedEntries(tree) ==
    {i \in DOMAIN tree :
        /\ tree[i].type = "blob"
        /\ \E ext \in {<<".", "y", "a", "m", "l">>, <<".", "y", "m", "l">>,
                       <<".", "t", "x", "t">>, <<".", "j", "s", "o", "n">>} :
            SuffixIs(tree[i].path, ext)}

\* C4: for a tree that was listed, search_github_files returns exactly the
\* paths of the blob entries ending with .yaml, .yml, .txt or .json, in tree order.
C4_ExactlyTheCandidates ==
    fn_pc = "done" =>
        LET wanted == WantedEntries(fn_arg)
        IN  /\ Len(fn_ret) = Cardinality(wanted)
            /\ \A i \in wanted : fn_ret[Rank(wanted, i)] = fn_arg[i].path

\* a tree with a directory named like a candidate and a blob with an upper-case
\* extension or none, next to one candidate
C4_Witness ==
    /\ fn_pc = "done"
    /\ Len(fn_arg) = 2
    /\ Len(fn_ret) = 1
    /\ \E i \in DOMAIN fn_arg : fn_arg[i] \in {DirItem(PathC), BlobItem(PathUpper)}

\* the characters strip() removes that do not end a line
InlineSpace == {" ", "\t"}

\* a is the first character of its line that is not whitespace
FirstOnLine(text, a) ==
    /\ text[a] \notin {" ", "\t", "\n", "\r", "\f"}
    /\ LET before == {i \in 1..(a - 1) : text[i] \notin InlineSpace}
       IN  before # {} =>
               text[CHOOSE i \in before : \A j \in before : j <= i] \in {"\n", "\r", "\f"}

\* the last character that is not whitespace on the line of position a
LastOnLine(text, a) ==
    LET breaks == {i \in a..Len(text) : text[i] \in {"\n", "\r", "\f"}}
        line_end == IF breaks = {} THEN Len(text)
                    ELSE (CHOOSE i \in breaks : \A j \in breaks : i <= j) - 1
        solid == {i \in a..line_end : text[i] \notin InlineSpace}
    IN  CHOOSE i \in solid : \A j \in solid : j <= i

\* the positions where a line's text starts with ss://, vmess://, trojan:// or vless://
LinkStarts(text) ==
    {a \in DOMAIN text :
        /\ FirstOnLine(text, a)
        /\ \E prefix \in {<<"s", "s", ":", "/", "/">>,
                          <<"v", "m", "e", "s", "s", ":", "/", "/">>,
                          <<"t", "r", "o", "j", "a", "n", ":", "/", "/">>,
                          <<"v", "l", "e", "s", "s", ":", "/", "/">>} :
            /\ a + Len(prefix) - 1 <= Len(text)
            /\ \A i \in DOMAIN prefix : text[a + i - 1] = prefix[i]}

\* C5: parse_links_from_text returns one node per line whose stripped text starts
\* with ss://, vmess://, trojan:// or vless://, in line order, with type "url",
\* name "raw-link", server and port None and config.link the stripped line.
C5_OneNodePerLinkLine ==
    fn_pc = "done" =>
        LET starts == LinkStarts(fn_arg)
        IN  /\ Len(fn_ret) = Cardinality(starts)
            /\ \A a \in starts :
                LET node == fn_ret[Rank(starts, a)]
                IN  /\ DOMAIN node = {"type", "name", "server", "port", "config"}
                    /\ node.type = PyStr("url")
                    /\ node.name = PyStr("raw-link")
                    /\ node.server = PyNone
                    /\ node.port = PyNone
                    /\ node.config.link = SubSeq(fn_arg, a, LastOnLine(fn_arg, a))

\* a text whose first line is indented and that holds two different links
C5_Witness ==
    /\ fn_pc = "done"
    /\ fn_arg # <<>> /\ fn_arg[1] = " "
    /\ Len(fn_ret) = 2
    /\ fn_ret[1].config.link # fn_ret[2].config.link

\* C6: every link parsed from a fetched file is the config.link of a node of
\* the list crawl_all returns.
C6_NoLinkLost ==
    pc = "returned" =>
        \A i \in DOMAIN concat :
            concat[i].config.link # <<>> =>
                \E j \in DOMAIN all_nodes : all_nodes[j].config.link = concat[i].config.link

\* C7: crawl_all crawls the repositories of its argument, each entry once and in
\* list order, and those of config.GITHUB_REPOS only when the argument is None;
\* an empty list makes no request and returns the empty list.
C7_CrawlsTheGivenRepos ==
    pc # "idle" =>
        LET wanted == IF arg.given THEN arg.list ELSE GITHUB_REPOS
        IN  /\ Len(crawled) <= Len(wanted)
            /\ crawled = SubSeq(wanted, 1, Len(crawled))
            /\ pc = "returned" => crawled = wanted
            /\ (arg.given /\ arg.list = <<>>) =>
                   (~requested /\ all_nodes = <<>> /\ pc \in {"crawl_all", "returned"})

\* crawl_all returned after crawling a list of two repositories
C7_Witness ==
    /\ pc = "returned"
    /\ arg.given
    /\ Len(crawled) >= 2
    /\ crawled # SubSeq(GITHUB_REPOS, 1, Len(crawled))
    /\ requested

\* what happens when search_github_files gave no tree for the repository
C8_UnresolvedAddsNothing ==
    /\ pc = "search" => pc' \in {"search", "fetch"}
    /\ (pc = "fetch" /\ ri \in unresolved) =>
           /\ files = <<>>
           /\ all_nodes' = all_nodes
           /\ concat' = concat
           /\ pc' = "crawl_all"
           /\ ri' = ri + 1

C8_TheOthersAreCrawled ==
    /\ pc = "crawl_all" =>
           /\ ri = Len(crawled) + 1
           /\ ri <= Len(repos) => ENABLED CrawlRepo
    /\ pc = "returned" =>
           /\ crawled = repos
           /\ \A i \in DOMAIN concat :
               \E j \in DOMAIN all_nodes : SameIdentity(all_nodes[j], concat[i])

\* C8: a repository whose tree no branch gives adds no node and crawl_all goes
\* on with the next repository; the list crawl_all returns holds, for every
\* node parsed from the other repositories, a node with its identity key.
C8_UnresolvedRepoTolerated ==
    /\ [](C8_TheOthersAreCrawled)
    /\ [][C8_UnresolvedAddsNothing]_vars

\* crawl_all returned nodes although the first repository of the list gave no tree
C8_Witness ==
    /\ pc = "returned"
    /\ 1 \in unresolved
    /\ Len(crawled) >= 2
    /\ all_nodes # <<>>

\* C9: whatever the files hold, crawl_all does not raise.
C9_NeverRaises == pc # "raised"

\* the proxies list of the document, empty when there is none
ProxiesOf(content) ==
    IF /\ content.load = "ok"
       /\ content.doc.t = "dict"
       /\ "proxies" \in DOMAIN content.doc.d
       /\ content.doc.d["proxies"].t = "list"
    THEN content.doc.d["proxies"].l
    ELSE <<>>

\* the positions of the entries that are mappings with a truthy server and port
KeptEntries(proxies) ==
    {i \in DOMAIN proxies :
        /\ proxies[i].t = "dict"
        /\ "server" \in DOMAIN proxies[i].d /\ Truthy(proxies[i].d["server"])
        /\ "port" \in DOMAIN proxies[i].d /\ Truthy(proxies[i].d["port"])}

FieldOrUnknown(p, k) ==
    IF k \in DOMAIN p.d /\ Truthy(p.d[k]) THEN p.d[k] ELSE PyStr("unknown")

\* C10: parse_clash_yaml returns one node per entry of proxies that is a mapping
\* with a truthy server and a truthy port, with exactly the fields type, name,
\* server, port, config; config is the entry, a missing or empty type or name is
\* "unknown"; a document that is no mapping or has no proxies gives the empty list.
C10_NormalizedNodes ==
    fn_pc = "done" =>
        LET proxies == ProxiesOf(fn_arg)
            kept == KeptEntries(proxies)
        IN  /\ Len(fn_ret) = Cardinality(kept)
            /\ \A i \in kept :
                LET node == fn_ret[Rank(kept, i)]
                IN  /\ DOMAIN node = {"type", "name", "server", "port", "config"}
                    /\ node.type = FieldOrUnknown(proxies[i], "type")
                    /\ node.name = FieldOrUnknown(proxies[i], "name")
                    /\ node.server = proxies[i].d["server"]
                    /\ node.port = proxies[i].d["port"]
                    /\ Truthy(node.server) /\ Truthy(node.port)
                    /\ node.config.proxy = proxies[i]

\* of two entries one was dropped and the other became a node of type "unknown"
C10_Witness ==
    /\ fn_pc = "done"
    /\ Len(ProxiesOf(fn_arg)) = 2
    /\ Len(fn_ret) = 1
    /\ fn_ret[1].type = PyStr("unknown")
    /\ fn_ret[1].name # PyStr("unknown")

\* the positions of concat that hold the first node of their identity key
FirstSeen(nodes) ==
    {i \in DOMAIN nodes : \A j \in 1..(i - 1) : ~SameIdentity(nodes[j], nodes[i])}

C11_ResultIsFirstSeen ==
    pc \in {"crawl_all", "returned"} =>
        LET first == FirstSeen(concat)
        IN  /\ Len(all_nodes) = Cardinality(first)
            /\ \A i \in first : all_nodes[Rank(first, i)] = concat[i]

\* a node once kept stays where it is
C11_KeptNodesStay ==
    pc # "idle" =>
        /\ Len(all_nodes) <= Len(all_nodes')
        /\ \A i \in DOMAIN all_nodes : all_nodes'[i] = all_nodes[i]

\* C11: the list crawl_all builds is the subsequence of the concatenated results
\* of crawl_repo made of the first node of each identity key; a later node with
\* a key already seen neither replaces the kept node nor moves it.
C11_KeepsFirstOccurrence ==
    /\ [](C11_ResultIsFirstSeen)
    /\ [][C11_KeptNodesStay]_vars

\* crawl_all returned: a node, then another node with its key, then a node with
\* a new key were parsed
C11_Witness ==
    /\ pc = "returned"
    /\ \E i, j, k \in DOMAIN concat :
        /\ i < j /\ j < k
        /\ SameIdentity(concat[i], concat[j])
        /\ concat[i] # concat[j]
        /\ k \in FirstSeen(concat)
        /\ \E m \in DOMAIN all_nodes : m > 1 /\ all_nodes[m] = concat[k]

\* the parser the extension of path calls for, as the path is written
ParserOfExtension(path) ==
    IF SuffixIs(path, <<".", "y", "a", "m", "l">>) \/ SuffixIs(path, <<".", "y", "m", "l">>)
    THEN "clash"
    ELSE IF SuffixIs(path, <<".", "t", "x", "t">>) THEN "links"
    ELSE IF SuffixIs(path, <<".", "j", "s", "o", "n">>) THEN "json"
    ELSE "none"

\* C14: a blob is selected by search_github_files exactly when
\* parse_nodes_from_file takes it for a .yaml/.yml, .txt or .json file, and
\* every selected file goes to the parser of its extension.
C14_FilterMatchesDispatch ==
    fn_pc = "done" =>
        /\ \A i \in DOMAIN fn_arg :
            fn_arg[i].type = "blob" =>
                ((\E k \in DOMAIN fn_ret : fn_ret[k] = fn_arg[i].path)
                    <=> ParserFor(fn_arg[i].path) # "none")
        /\ \A k \in DOMAIN fn_ret : ParserFor(fn_ret[k]) = ParserOfExtension(fn_ret[k])

\* what is left to do: repositories, then the phase of the current one, then
\* the branches or the files of that phase
Variant ==
    CASE pc = "crawl_all" -> <<Len(repos) + 1 - ri, 3, 0>>
      [] pc = "search" -> <<Len(repos) + 1 - ri, 2, Len(BranchesToTry(DEFAULT_BRANCH)) + 1 - bi>>
      [] pc = "fetch" -> <<Len(repos) + 1 - ri, 1, Len(files) + 1 - fi>>
      [] OTHER -> <<0, 0, 0>>

\* the lexicographic order on triples of naturals
LexLess(a, b) ==
    \/ a[1] < b[1]
    \/ a[1] = b[1] /\ a[2] < b[2]
    \/ a[1] = b[1] /\ a[2] = b[2] /\ a[3] < b[3]

\* every step after the call brings the run nearer to its end
C13_Progress == pc # "idle" => LexLess(Variant', Variant)

\* the run is never stuck before its end; no branch is asked for twice, no
\* content is asked for before a tree is read, and the content requests follow
\* the candidate paths one for one (a turn of the loop over files needs only an
\* unread path and an answer of the server)
C13_OneRequestEach ==
    /\ \A i \in DOMAIN Variant : Variant[i] >= 0
    /\ pc \notin {"returned", "raised"} =>
        \/ ENABLED (CrawlAll \/ CrawlRepo \/ Return \/ SkipBranch \/ RequestTree
                        \/ SearchFailed \/ Dedup)
        \/ pc = "fetch" /\ fi <= Len(files) /\ ContentResponses # {}
    /\ pc \in {"search", "fetch"} =>
        /\ \A i, j \in DOMAIN TreeReqs : i < j => TreeReqs[i].branch # TreeReqs[j].branch
        /\ \A i \in DOMAIN TreeReqs : TreeReqs[i].branch \in {DEFAULT_BRANCH, "master", "main"}
        /\ Cardinality({DEFAULT_BRANCH, "master", "main"}) <= Len(<<"b1", "b2", "b3">>)
        /\ Len(TreeReqs) <= Cardinality({DEFAULT_BRANCH, "master", "main"})
        /\ DEFAULT_BRANCH \in {"master", "main"} => Len(TreeReqs) <= Len(<<"master", "main">>)
        /\ pc = "search" => ContentReqs = <<>>
        /\ pc = "fetch" =>
            /\ Len(reqs) = Len(TreeReqs) + Len(ContentReqs)
            /\ Len(ContentReqs) = fi - 1
            /\ \A k \in DOMAIN ContentReqs : ContentReqs[k].path = files[k]
            /\ fi > Len(files) => Len(ContentReqs) = Len(files)

\* C13: crawl_all ends for every repository list and every HTTP outcome, and
\* makes for each repository at most one tree request per distinct branch name
\* (at most 3, at most 2 when DEFAULT_BRANCH is "master" or "main") and exactly
\* one content request per candidate path.
C13_TerminatesWithoutRetry ==
    /\ [](C13_OneRequestEach)
    /\ [][C13_Progress]_vars

\* crawl_repo is about to return after three tree requests and two content requests
C13_Witness ==
    /\ pc = "fetch"
    /\ fi > Len(files)
    /\ Cardinality({TreeReqs[i].branch : i \in DOMAIN TreeReqs}) = Cardinality({"dev", "master", "main"})
    /\ Len(ContentReqs) >= 2
    /\ ri >= 2

\* the default branch the repository being crawled may have
RepositoryHeads == {"main", "master"}

\* the branch GitHub reads the file of a content request from: the ref the URL
\* names, and the default branch of the repository when it names none
ServedFrom(req, default) == IF req.branch = "" THEN default ELSE req.branch

\* C12: whatever the default branch of the repository is, crawl_repo reads each
\* candidate path from the branch whose tree search_github_files listed.
C12_ContentFromListedBranch ==
    pc = "fetch" =>
        \A k \in DOMAIN ContentReqs :
            \A default \in RepositoryHeads :
                ServedFrom(ContentReqs[k], default) = branch

====
